---- MODULE Spec2Model ----
(***************************************************************************)
(* Capture Manager bot: the capture-batch store (lib/database.py), the     *)
(* Telegram command handlers (api/webhook.py) and the delivery to Bot 2    *)
(* (api/data_sender.py).                                                   *)
(*                                                                         *)
(* Every handler is a coroutine on one event loop.  The Database methods   *)
(* are "async def" but call the synchronous Supabase client, so they never *)
(* suspend; a handler can be interleaved with another one only where it    *)
(* awaits real network I/O: telegram.send_message, telegram.download_file  *)
(* and data_sender.send_to_predictions_bot.  One action below is the code  *)
(* between two such suspension points.                                     *)
(***************************************************************************)
EXTENDS Integers, Sequences, FiniteSets, Bags, TLC

\* ---------------------------------------------------------------- bounds
\* How many batches (uuid4 values) and stored files (timestamps) a run draws.
MaxBatches == 2
MaxFiles == 2

\* How many items a recognised text has.
MaxItems == 3

\* Sessions (Telegram chat ids), and how many background tasks can be suspended
\* at an await at the same time.
Chats == {"c1", "c2"}
Slots == {"s1", "s2"}

\* The "N/10" of the status messages: api/webhook.py:111,160,163,391.
Capacity == 10

VARIABLES
    capture_batches,   \* table capture_batches: id -> row
    capture_images,    \* storage bucket capture_images: filename -> bytes
    tasks,             \* the bag of background tasks suspended at an await
    delivered,         \* what Bot 2 accepted (HTTP 200): {batch_id, payload}
    last,              \* the last handler step and the message it sent
    uuid,              \* next uuid4 of start_new_batch
    clock,             \* next utcnow() timestamp of an uploaded file name
    recognised,        \* the text_data handed to parse_odds_from_text
    parsed,            \* what parse_odds_from_text returned for it
    arrival            \* the uploads in flight, in the order their updates came

vars == <<capture_batches, capture_images, tasks, delivered, last, uuid, clock,
          recognised, parsed, arrival>>

\* ------------------------------------------------------------ python values
\* None, as a row without identity.
None == [id |-> 0]

\* {} and dict.update
EmptyDict == [k \in {} |-> ""]
dict_update(d, e) == e @@ d

\* bool(d) of a dict
truthy(d) == DOMAIN d # {}

\* ------------------------------------------------------------ lib/database.py
\* The row start_new_batch inserts.
batch_record(id, chat_id, match_info) ==
    [id |-> id, chat_id |-> chat_id, match_info |-> match_info,
     images |-> <<>>, extracted_data |-> EmptyDict, sent_to_bot2 |-> FALSE,
     created_at |-> id, processed_at |-> FALSE, sent_at |-> FALSE]

\* Mutant: the query without .eq('sent_to_bot2', False).
get_current_batch_any(tbl, chat_id) ==
    LET rows == {b \in DOMAIN tbl : tbl[b].chat_id = chat_id}
        newest == CHOOSE b \in rows : \A o \in rows : tbl[o].created_at <= tbl[b].created_at
    IN IF rows = {} THEN None ELSE tbl[newest]

\* Mutant: the query without .eq('chat_id', chat_id).
get_current_batch_every_chat(tbl, chat_id) ==
    LET rows == {b \in DOMAIN tbl : ~tbl[b].sent_to_bot2}
        newest == CHOOSE b \in rows : \A o \in rows : tbl[o].created_at <= tbl[b].created_at
    IN IF rows = {} THEN None ELSE tbl[newest]

\* select * where chat_id = .. and sent_to_bot2 = False order by created_at desc limit 1
get_current_batch(tbl, chat_id) ==
    LET rows == {b \in DOMAIN tbl : tbl[b].chat_id = chat_id /\ ~tbl[b].sent_to_bot2}
        newest == CHOOSE b \in rows : \A o \in rows : tbl[o].created_at <= tbl[b].created_at
    IN IF rows = {} THEN None ELSE tbl[newest]

\* A table without row b / a bucket without the files F.
delete_row(tbl, b) == [x \in DOMAIN tbl \ {b} |-> tbl[x]]
remove_files(sto, F) == [f \in DOMAIN sto \ F |-> sto[f]]

filenames(images) == {images[i].filename : i \in 1..Len(images)}

\* clear_current_batch: the files of the current batch, then its row.
clear_current_batch(tbl, sto, chat_id) ==
    LET current_batch == get_current_batch(tbl, chat_id)
    IN IF current_batch # None
       THEN [tbl |-> delete_row(tbl, current_batch.id),
             sto |-> remove_files(sto, filenames(current_batch.images))]
       ELSE [tbl |-> tbl, sto |-> sto]

\* Mutant: the row is inserted without clearing the current batch first.
start_new_batch_no_clear(tbl, sto, chat_id, match_info, id) ==
    [tbl |-> (id :> batch_record(id, chat_id, match_info)) @@ tbl, sto |-> sto]

\* start_new_batch: clear, then insert a fresh row.
start_new_batch(tbl, sto, chat_id, match_info, id) ==
    LET c == clear_current_batch(tbl, sto, chat_id)
    IN [tbl |-> (id :> batch_record(id, chat_id, match_info)) @@ c.tbl,
        sto |-> c.sto]

\* The file name add_image_to_batch builds: batch id, file id, utcnow().
image_filename(batch_id, file_id, ts) == <<batch_id, file_id, ts>>

\* The entry add_image_to_batch appends.
image_entry(batch_id, file_id, ts) ==
    [id |-> file_id, filename |-> image_filename(batch_id, file_id, ts),
     processed |-> FALSE]

\* add_image_to_batch: upload the file, read the row by id (.single() raises
\* when there is no such row), append the entry, write the list back.
add_image_to_batch(tbl, sto, batch_id, image_data, file_id, ts) ==
    LET uploaded == (image_filename(batch_id, file_id, ts) :> image_data) @@ sto
    IN IF batch_id \notin DOMAIN tbl
       THEN [tbl |-> tbl, sto |-> uploaded, raised |-> TRUE]
       ELSE [tbl |-> [tbl EXCEPT ![batch_id].images =
                          Append(@, image_entry(batch_id, file_id, ts))],
             sto |-> uploaded, raised |-> FALSE]

\* Mutant: the record of a batch is written once and kept.
save_extracted_data_once(tbl, batch_id, extracted_data) ==
    IF batch_id \in DOMAIN tbl /\ ~tbl[batch_id].processed_at
    THEN [tbl EXCEPT ![batch_id].extracted_data = extracted_data,
                     ![batch_id].processed_at = TRUE]
    ELSE tbl

\* save_extracted_data: update ... where id = batch_id (no row, no effect).
save_extracted_data(tbl, batch_id, extracted_data) ==
    IF batch_id \in DOMAIN tbl
    THEN [tbl EXCEPT ![batch_id].extracted_data = extracted_data,
                     ![batch_id].processed_at = TRUE]
    ELSE tbl

\* Mutant: the update without .eq('id', batch_id).
mark_batch_as_sent_every_row(tbl, batch_id) ==
    [b \in DOMAIN tbl |-> [tbl[b] EXCEPT !.sent_to_bot2 = TRUE, !.sent_at = TRUE]]

\* mark_batch_as_sent: update ... where id = batch_id (no row, no effect).
mark_batch_as_sent(tbl, batch_id) ==
    IF batch_id \in DOMAIN tbl
    THEN [tbl EXCEPT ![batch_id].sent_to_bot2 = TRUE, ![batch_id].sent_at = TRUE]
    ELSE tbl

\* ------------------------------------------------------ lib/image_processor.py
\* A recognised text is a sequence of tokens: the character text is the tokens
\* joined by single blanks, and the token "\n" is a line break.  The regular
\* expressions of the extractors are read on tokens: an atom of an expression
\* (a word, a line marker, an odds number) is found in one token, and what is
\* between two atoms is a gap of whole tokens.

NL == "\n"

\* The tokens that are odds, \d{1,2}\.\d{2} in full, and their float() in
\* hundredths.  The odds of the texts have one digit before the point.
float ==
       ("1.00" :> 100) @@ ("1.50" :> 150) @@ ("1.57" :> 157) @@ ("1.66" :> 166)
    @@ ("1.80" :> 180) @@ ("1.90" :> 190) @@ ("1.95" :> 195) @@ ("2.00" :> 200)
    @@ ("2.10" :> 210) @@ ("2.20" :> 220) @@ ("2.25" :> 225) @@ ("2.50" :> 250)
    @@ ("3.10" :> 310) @@ ("3.20" :> 320) @@ ("3.40" :> 340) @@ ("3.60" :> 360)
    @@ ("4.00" :> 400) @@ ("4.50" :> 450) @@ ("6.00" :> 600)

Decimal == DOMAIN float

\* The other tokens with digits: numbers, the goal line, a time of day.
Number == {"9", "10", "11", "27"}
Line == {"2.5", "2,5"}
Time == {"11:15"}

\* The words, and the tokens without a word character.
Word == {"Atlético", "Madrid", "Real", "Barcelona", "Empate", "Resultado", "final",
         "Goles", "Más", "Menos", "Más/Menos", "de", "vs", "sep", "Over", "Under",
         "Ambos", "equipos", "anotarán", "Sí", "No", "Yes", "Tiros", "esquina",
         "Corners", "Kylian", "Mbappé", "Haaland", "Primer", "goleador", "Anotará",
         "en", "cualquier", "momento"}
Dash == {"-"}

\* --- re: the expressions on tokens
\* An atom of an expression: the gap before it, the tokens it is found in, and
\* whether it is a group of the match.
\*   "lazy"        .*?     tokens of one line
\*   "space"       \s*     line breaks only (\s+ likewise: tokens are apart)
\*   "space_lazy"  \s*.*?  line breaks, then tokens of one line
\*   "lazy_space"  .*?\s+  tokens of one line, then line breaks
\*   "blank"       a blank: the next token
\*   "start"       where the match starts
Item(gap, cls, cap) == [gap |-> gap, cls |-> cls, cap |-> cap]

gap_ok(text, gap, p, q) ==
    CASE gap = "lazy" -> \A x \in (p + 1)..(q - 1) : text[x] # NL
      [] gap = "space" -> \A x \in (p + 1)..(q - 1) : text[x] = NL
      [] gap = "space_lazy" ->
            \E w \in (p + 1)..q : /\ \A x \in (p + 1)..(w - 1) : text[x] = NL
                                  /\ \A x \in w..(q - 1) : text[x] # NL
      [] gap = "lazy_space" ->
            \E w \in (p + 1)..q : /\ \A x \in (p + 1)..(w - 1) : text[x] # NL
                                  /\ \A x \in w..(q - 1) : text[x] = NL
      [] gap = "blank" -> q = p + 1
      [] gap = "start" -> TRUE

\* "name = value" and the statements that read the name: the value is computed
\* once.
bind(value, body(_)) == CHOOSE result \in {body(name) : name \in {value}} : TRUE

\* No match, among the sequences of positions.
NoMatch == <<0>>

\* The match of the atoms k.. of a pattern after position p, as the positions of
\* its atoms: the backtracking of re, which for lazy gaps takes for each atom in
\* turn the nearest token behind which the rest of the pattern matches.
RECURSIVE match_rest(_, _, _, _)
match_rest(pattern, text, k, p) ==
    IF k > Len(pattern) THEN <<>>
    ELSE bind({<<q>> \o match_rest(pattern, text, k + 1, q) :
                  q \in {x \in (p + 1)..Len(text) :
                            /\ text[x] \in pattern[k].cls
                            /\ gap_ok(text, pattern[k].gap, p, x)}},
              LAMBDA tried :
                 LET matched == {m \in tried : m[Len(m)] # 0}
                 IN IF matched = {} THEN NoMatch
                    ELSE CHOOSE m \in matched : \A o \in matched : m[1] <= o[1])

\* match.groups(): the tokens of the atoms that are groups.
RECURSIVE groups(_, _, _)
groups(pattern, text, m) ==
    IF m = <<>> THEN <<>>
    ELSE LET k == Len(m)
             before == groups(pattern, text, SubSeq(m, 1, k - 1))
         IN IF pattern[k].cap THEN Append(before, text[m[k]]) ELSE before

\* re.search: the leftmost match with its groups, or None.
re_search(pattern, text) ==
    bind(match_rest(pattern, text, 1, 0),
         LAMBDA m : IF m = NoMatch THEN None ELSE [groups |-> groups(pattern, text, m)])

\* re.findall: the groups of the matches from left to right, each one searched
\* behind the one before.
RECURSIVE findall_from(_, _, _)
findall_from(pattern, text, from) ==
    bind(match_rest(pattern, text, 1, from - 1),
         LAMBDA m : IF m = NoMatch THEN <<>>
                    ELSE <<groups(pattern, text, m)>>
                         \o findall_from(pattern, text, m[Len(m)] + 1))

re_findall(pattern, text) == findall_from(pattern, text, 1)

\* --- extract_1x2_odds
\* The tokens with a word character (\w), and those with "Empate" in them.
HasWordChar == Decimal \cup Number \cup Line \cup Time \cup Word
HasEmpate == {"Empate"}

\* (\w+.*?)\s+(D)\s*.*?Empate.*?(D)\s*.*?(\w+.*?)\s+(D): five groups, the two
\* labels given by the token they start in.
labeled_1x2 ==
    <<Item("start", HasWordChar, TRUE), Item("lazy_space", Decimal, TRUE),
      Item("space_lazy", HasEmpate, FALSE), Item("lazy", Decimal, TRUE),
      Item("space_lazy", HasWordChar, TRUE), Item("lazy_space", Decimal, TRUE)>>

\* (D)\s*(D)\s*(D)
three_decimals ==
    <<Item("start", Decimal, TRUE), Item("space", Decimal, TRUE),
      Item("space", Decimal, TRUE)>>

patterns_1x2 == <<labeled_1x2, three_decimals>>

\* "if len(match) == 3" and the range check on the three floats.
reasonable_1x2(match) ==
    /\ Len(match) = 3
    /\ 101 <= float[match[1]] /\ float[match[1]] <= 5000
    /\ 101 <= float[match[2]] /\ float[match[2]] <= 1500
    /\ 101 <= float[match[3]] /\ float[match[3]] <= 5000

\* The loops of extract_1x2_odds over the first n patterns: the first match of a
\* pattern that passes is taken (break), and a later pattern takes over.
RECURSIVE odds_1x2_of(_, _)
odds_1x2_of(text, n) ==
    IF n = 0 THEN EmptyDict
    ELSE bind(re_findall(patterns_1x2[n], text),
              LAMBDA matches :
                 LET passed == {j \in 1..Len(matches) : reasonable_1x2(matches[j])}
                     match == matches[CHOOSE j \in passed : \A o \in passed : j <= o]
                 IN IF passed = {} THEN odds_1x2_of(text, n - 1)
                    ELSE [home |-> match[1], draw |-> match[2], away |-> match[3],
                          confidence |-> "0.8"])

extract_1x2_odds(text) == odds_1x2_of(text, Len(patterns_1x2))

\* --- exceptions
\* What an operator yields when the statement it models raises, and
\* "try: ... except Exception: return <value>".
Raised == [raised |-> "AttributeError"]

\* Mutant: the exception is not caught.
uncaught(result, value) == result

except_return(result, value) ==
    bind(result, LAMBDA returned : IF returned = Raised THEN value ELSE returned)

\* "x in text" for a string x that the tokens of `cls` have in them.
in_text(cls, text) == \E p \in 1..Len(text) : text[p] \in cls

\* --- extract_over_under_odds (re.IGNORECASE)
Has2Dot5 == {"2.5", "2.50"}
Has2Comma5 == {"2,5"}
HasLine == Has2Dot5 \cup Has2Comma5
HasMas == {"Más", "Más/Menos"}
HasMenos == {"Menos", "Más/Menos"}
HasOver == {"Over"}
HasUnder == {"Under"}

\* Más.*?2[.,]5.*?(D).*?Menos.*?2[.,]5.*?(D), the same with Over and Under, and
\* (D)\s*.*?(D).
patterns_over_under ==
    <<<<Item("start", HasMas, FALSE), Item("lazy", HasLine, FALSE),
        Item("lazy", Decimal, TRUE), Item("lazy", HasMenos, FALSE),
        Item("lazy", HasLine, FALSE), Item("lazy", Decimal, TRUE)>>,
      <<Item("start", HasOver, FALSE), Item("lazy", HasLine, FALSE),
        Item("lazy", Decimal, TRUE), Item("lazy", HasUnder, FALSE),
        Item("lazy", HasLine, FALSE), Item("lazy", Decimal, TRUE)>>,
      <<Item("start", Decimal, TRUE), Item("space_lazy", Decimal, TRUE)>>>>

\* The loop of extract_over_under_odds from pattern n on.  Its condition is
\* "match and '2.5' in text or '2,5' in text": with '2,5' in the text it is true
\* without a match, and match.groups() raises.
RECURSIVE over_under_from(_, _)
over_under_from(text, n) ==
    IF n > Len(patterns_over_under) THEN EmptyDict
    ELSE bind(re_search(patterns_over_under[n], text),
              LAMBDA match :
                 IF (match # None /\ in_text(Has2Dot5, text)) \/ in_text(Has2Comma5, text)
                 THEN IF match = None THEN Raised
                      ELSE LET over_odds == match.groups[1]
                               under_odds == match.groups[2]
                           IN IF /\ 101 <= float[over_odds] /\ float[over_odds] <= 1000
                                 /\ 101 <= float[under_odds] /\ float[under_odds] <= 1000
                              THEN [over_2_5 |-> over_odds, under_2_5 |-> under_odds,
                                    line |-> "2.5"]
                              ELSE over_under_from(text, n + 1)
                 ELSE over_under_from(text, n + 1))

extract_over_under_odds(text) == except_return(over_under_from(text, 1), EmptyDict)

\* --- extract_btts_odds (re.IGNORECASE)
\* The tokens with one of 'ambos', 'both', 'equipos', 'teams', 'anotan', 'score'.
HasBttsIndicator == {"Ambos", "equipos"}
EndsSi == {"Sí"}
EndsYes == {"Yes"}
EndsNo == {"No"}

\* Sí\s*(D).*?No\s*(D) and Yes\s*(D).*?No\s*(D)
patterns_btts ==
    <<<<Item("start", EndsSi, FALSE), Item("space", Decimal, TRUE),
        Item("lazy", EndsNo, FALSE), Item("space", Decimal, TRUE)>>,
      <<Item("start", EndsYes, FALSE), Item("space", Decimal, TRUE),
        Item("lazy", EndsNo, FALSE), Item("space", Decimal, TRUE)>>>>

RECURSIVE btts_from(_, _)
btts_from(text, n) ==
    IF n > Len(patterns_btts) THEN EmptyDict
    ELSE bind(re_search(patterns_btts[n], text),
              LAMBDA match :
                 IF match # None
                 THEN LET yes_odds == match.groups[1]
                          no_odds == match.groups[2]
                      IN IF /\ 120 <= float[yes_odds] /\ float[yes_odds] <= 500
                            /\ 120 <= float[no_odds] /\ float[no_odds] <= 500
                         THEN [yes |-> yes_odds, no |-> no_odds]
                         ELSE btts_from(text, n + 1)
                 ELSE btts_from(text, n + 1))

extract_btts_odds(text) ==
    IF in_text(HasBttsIndicator, text) THEN btts_from(text, 1) ELSE EmptyDict

\* --- re: alternatives
\* The match of a pattern that starts in token q.
match_at(pattern, text, q) ==
    IF text[q] \in pattern[1].cls
    THEN bind(match_rest(pattern, text, 2, q),
              LAMBDA rest : IF rest # NoMatch THEN <<q>> \o rest ELSE NoMatch)
    ELSE NoMatch

\* The first of the alternatives from a on that matches from token q, or None.
RECURSIVE first_alternative(_, _, _, _)
first_alternative(alternatives, text, q, a) ==
    IF a > Len(alternatives) THEN None
    ELSE bind(match_at(alternatives[a], text, q),
              LAMBDA m : IF m # NoMatch THEN [alt |-> a, at |-> m]
                         ELSE first_alternative(alternatives, text, q, a + 1))

\* re.findall for alternatives that are tried in order at each place: the
\* matches from left to right, each with the alternative that matched, its
\* groups and the tokens from its first atom to its last.
RECURSIVE findall_alternatives_from(_, _, _)
findall_alternatives_from(alternatives, text, from) ==
    bind({first_alternative(alternatives, text, q, 1) : q \in from..Len(text)} \ {None},
         LAMBDA found :
            IF found = {} THEN <<>>
            ELSE LET m == CHOOSE x \in found : \A o \in found : x.at[1] <= o.at[1]
                 IN <<[alt |-> m.alt,
                       groups |-> groups(alternatives[m.alt], text, m.at),
                       span |-> SubSeq(text, m.at[1], m.at[Len(m.at)])]>>
                    \o findall_alternatives_from(alternatives, text,
                                                 m.at[Len(m.at)] + 1))

\* --- extract_corners_odds (re.IGNORECASE)
\* The tokens with one of 'corner', 'esquina', 'tiros', 'saque'.
HasCornerIndicator == {"Corners", "esquina", "Tiros"}

\* \d{1,2} in a token: the digits a token starts with, when a character of the
\* token follows them, and the digits a token ends with.
leading_digits ==
    [t \in Decimal |-> CASE float[t] < 200 -> "1" [] float[t] < 300 -> "2"
                         [] float[t] < 400 -> "3" [] float[t] < 500 -> "4"
                         [] OTHER -> "6"]
    @@ ("2.5" :> "2") @@ ("2,5" :> "2") @@ ("11:15" :> "11")

trailing_digits ==
       ("1.00" :> "00") @@ ("1.50" :> "50") @@ ("1.57" :> "57") @@ ("1.66" :> "66")
    @@ ("1.80" :> "80") @@ ("1.90" :> "90") @@ ("1.95" :> "95") @@ ("2.00" :> "00")
    @@ ("2.10" :> "10") @@ ("2.20" :> "20") @@ ("2.25" :> "25") @@ ("2.50" :> "50")
    @@ ("3.10" :> "10") @@ ("3.20" :> "20") @@ ("3.40" :> "40") @@ ("3.60" :> "60")
    @@ ("4.00" :> "00") @@ ("4.50" :> "50") @@ ("6.00" :> "00")
    @@ ("2.5" :> "5") @@ ("2,5" :> "5") @@ ("11:15" :> "15")
    @@ [t \in Number |-> t]

StartsDigits == DOMAIN leading_digits
EndsDigits == DOMAIN trailing_digits

\* int() of one or two digits.
int ==
       ("00" :> 0) @@ ("1" :> 1) @@ ("2" :> 2) @@ ("3" :> 3) @@ ("4" :> 4) @@ ("5" :> 5)
    @@ ("6" :> 6) @@ ("9" :> 9) @@ ("10" :> 10) @@ ("11" :> 11) @@ ("15" :> 15)
    @@ ("20" :> 20) @@ ("25" :> 25) @@ ("27" :> 27) @@ ("40" :> 40) @@ ("50" :> 50)
    @@ ("57" :> 57) @@ ("60" :> 60) @@ ("66" :> 66) @@ ("80" :> 80) @@ ("90" :> 90)
    @@ ("95" :> 95)

\* The digits \d{1,2} takes in the token of a match: the first ones behind a
\* lazy gap, and in the third pattern those of the alternative.
first_digits(t) == IF t \in Number THEN t ELSE leading_digits[t]

\* Más.*?(\d{1,2}).*?(D) and the same with Over.
corners_mas ==
    <<Item("start", HasMas, FALSE), Item("lazy", EndsDigits, TRUE),
      Item("lazy", Decimal, TRUE)>>
corners_over ==
    <<Item("start", HasOver, FALSE), Item("lazy", EndsDigits, TRUE),
      Item("lazy", Decimal, TRUE)>>

\* (\d{1,2})\s*.*?(D): from the digits a token starts with the gap is .*?, from
\* the digits it ends with it is \s*.*?.
corners_number ==
    <<<<Item("start", StartsDigits, TRUE), Item("lazy", Decimal, TRUE)>>,
      <<Item("start", EndsDigits, TRUE), Item("space_lazy", Decimal, TRUE)>>>>

\* re.findall of the three patterns, as (number, odds) pairs in the order the
\* loops visit them.
corners_matches(text) ==
    bind(re_findall(corners_mas, text) \o re_findall(corners_over, text),
         LAMBDA labeled :
            [j \in 1..Len(labeled) |-> <<first_digits(labeled[j][1]), labeled[j][2]>>])
    \o bind(findall_alternatives_from(corners_number, text, 1),
            LAMBDA numbered :
               [j \in 1..Len(numbered) |->
                  <<IF numbered[j].alt = 1 THEN leading_digits[numbered[j].groups[1]]
                    ELSE trailing_digits[numbered[j].groups[1]],
                    numbered[j].groups[2]>>])

\* The loops of extract_corners_odds over the first n matches: a later match
\* for a threshold replaces an earlier one.
RECURSIVE corners_of(_, _)
corners_of(matches, n) ==
    IF n = 0 THEN EmptyDict
    ELSE LET number == matches[n][1]
             odds == matches[n][2]
         IN IF 8 <= int[number] /\ int[number] <= 15
            THEN (("over_" \o number) :> [odds |-> odds, line |-> number])
                 @@ corners_of(matches, n - 1)
            ELSE corners_of(matches, n - 1)

extract_corners_odds(text) ==
    IF in_text(HasCornerIndicator, text)
    THEN bind(corners_matches(text), LAMBDA matches : corners_of(matches, Len(matches)))
    ELSE EmptyDict

\* --- extract_player_odds (re.IGNORECASE)
known_players ==
    <<"Mbappé", "Mbappe", "Kylian", "Vinicius", "Benzema", "Bellingham",
      "Griezmann", "Morata", "Haaland", "Lewandowski", "Messi", "Neymar",
      "Salah", "Kane", "Ronaldo", "Pedri", "Gavi", "Modric", "Kroos">>

\* The tokens with the name of a player in them, in any case.
HasName(player) == {t \in {"Mbappé", "Kylian", "Haaland"} : t = player}

\* The tokens with 'goleador' or 'scorer'.
HasGoleador == {"goleador"}

\* player.*?(D)
player_pattern(player) ==
    <<Item("start", HasName(player), FALSE), Item("lazy", Decimal, TRUE)>>

\* The first of the first two odds behind the name that is in the range, under
\* first_goal or anytime_goal by the words of the whole text; no odds in the
\* range, no entry.
player_entry(player, text) ==
    IF ~in_text(HasName(player), text) THEN EmptyDict
    ELSE bind(re_findall(player_pattern(player), text),
              LAMBDA matches :
                 LET passed == {j \in 1..Len(matches) :
                                  /\ j <= 2
                                  /\ 150 <= float[matches[j][1]]
                                  /\ float[matches[j][1]] <= 2500}
                     odds == matches[CHOOSE j \in passed : \A o \in passed : j <= o][1]
                 IN IF passed = {} THEN EmptyDict
                    ELSE IF in_text(HasGoleador, text) THEN [first_goal |-> odds]
                    ELSE [anytime_goal |-> odds])

extract_player_odds(text) ==
    bind([j \in 1..Len(known_players) |-> player_entry(known_players[j], text)],
         LAMBDA entry :
            [player \in {known_players[j] : j \in {x \in DOMAIN entry : truthy(entry[x])}}
                |-> entry[CHOOSE j \in DOMAIN entry : known_players[j] = player]])

\* --- extract_match_info
\* (Real Madrid|Atlético.*?Madrid|Barcelona|Valencia|Sevilla), re.IGNORECASE;
\* the teams of the two other patterns are in no text here.
team_pattern ==
    <<<<Item("start", {"Real"}, FALSE), Item("blank", {"Madrid"}, FALSE)>>,
      <<Item("start", {"Atlético"}, FALSE), Item("lazy", {"Madrid"}, FALSE)>>,
      <<Item("start", {"Barcelona"}, FALSE)>>,
      <<Item("start", {"Valencia"}, FALSE)>>,
      <<Item("start", {"Sevilla"}, FALSE)>>>>

\* The tokens that are \w+ in full, and those that start with \d{1,2}:\d{2}.
AllWordChars == Number \cup (Word \ {"Más/Menos"})

\* (\d{1,2}\s+\w+\s+\d{1,2}:\d{2})
date_pattern ==
    <<Item("start", EndsDigits, TRUE), Item("space", AllWordChars, TRUE),
      Item("space", Time, TRUE)>>

\* The names are the tokens of the team, the date those of the match, the first
\* one cut to the digits it ends with.
extract_match_info(text) ==
    bind(findall_alternatives_from(team_pattern, text, 1),
         LAMBDA teams_found :
            IF Len(teams_found) >= 2
            THEN [home_team |-> teams_found[1].span, away_team |-> teams_found[2].span]
            ELSE EmptyDict)
    @@ bind(match_rest(date_pattern, text, 1, 0),
            LAMBDA date_match :
               IF date_match # NoMatch
               THEN [datetime |-> <<trailing_digits[text[date_match[1]]]>>
                                  \o SubSeq(text, date_match[1] + 1, date_match[3])]
               ELSE EmptyDict)

\* --- parse_odds_from_text
\* ' '.join of the texts of the items that are not blank.
RECURSIVE join(_)
join(text_data) ==
    IF text_data = <<>> THEN <<>>
    ELSE LET text == Head(text_data).text
         IN (IF \A j \in 1..Len(text) : text[j] = NL THEN <<>> ELSE text)
            \o join(Tail(text_data))

\* The six entries of odds_data in the order they are assigned.
entries(full_text) ==
    <<<<"match_info", extract_match_info(full_text)>>,
      <<"1x2", extract_1x2_odds(full_text)>>,
      <<"over_under", extract_over_under_odds(full_text)>>,
      <<"btts", extract_btts_odds(full_text)>>,
      <<"corners", extract_corners_odds(full_text)>>,
      <<"players", extract_player_odds(full_text)>>>>

\* Mutant: the entries as they are, empty ones too.
keep_all(v) == TRUE

\* "if v" of the filter.
non_empty(v) == truthy(v)

\* The body of parse_odds_from_text: an extractor that raises ends it, and the
\* entries that are left are those with a result.
parse_from(text_data) ==
    bind(join(text_data),
         LAMBDA full_text :
            bind(entries(full_text),
                 LAMBDA odds_data :
                    LET kept == {j \in 1..Len(odds_data) : non_empty(odds_data[j][2])}
                    IN IF \E j \in 1..Len(odds_data) : odds_data[j][2] = Raised
                       THEN Raised
                       ELSE [k \in {odds_data[j][1] : j \in kept} |->
                                odds_data[CHOOSE j \in kept : odds_data[j][1] = k][2]]))

parse_odds_from_text(text_data) ==
    except_return(parse_from(text_data), [parse_error |-> "AttributeError"])

\* --- extract_odds_from_image
_simulate_ocr_from_bet365 ==
    <<NL, "Atlético", "de", "Madrid", "vs", "Real", "Madrid",
      NL, "27", "sep", "11:15",
      NL, NL, "Resultado", "final",
      NL, "Atlético", "Madrid", "3.10",
      NL, "Empate", "3.60",
      NL, "Real", "Madrid", "2.20",
      NL, NL, "Goles", "-", "Más/Menos", "de",
      NL, "Más", "de", "2.5", "1.66",
      NL, "Menos", "de", "2.5", "2.20",
      NL, NL, "Ambos", "equipos", "anotarán",
      NL, "Sí", "1.57",
      NL, "No", "2.25",
      NL, NL, "Tiros", "de", "esquina",
      NL, "Más", "de", "10", "2.20",
      NL, "Menos", "de", "10", "2.00",
      NL, NL, "Kylian", "Mbappé",
      NL, "Primer", "goleador", "4.50",
      NL, "Anotará", "en", "cualquier", "momento", "1.95",
      NL>>

\* The images a user uploads, named by their Telegram file id, and the text a
\* recognition backend returns for each.  For any other image it returns
\* nothing, which is what today's extract_text_external_api does for every
\* image: None, which "not text_data" takes like the empty list it is here.
Files == {"imgA", "imgB"}

extract_text_external_api(image_data) ==
    CASE image_data = "imgA" ->
           <<[text |-> <<"2.10", "3.40", "3.20", "Corners", "Over", "11", "1.90">>,
              confidence |-> "0.9"]>>
      [] image_data = "imgB" ->
           <<[text |-> <<"1.50", "4.00", "6.00", "Corners", "Over", "9", "1.80">>,
              confidence |-> "0.9"]>>
      [] OTHER -> <<>>

\* "not text_data"
no_text(text_data) == text_data = <<>>

\* What is parsed when there is no text: the simulated text as one item, and
\* its odds, the same for every image.
simulated_text_data == <<[text |-> _simulate_ocr_from_bet365, confidence |-> "0.8"]>>
simulated_odds_data == parse_odds_from_text(simulated_text_data)

\* The body of extract_odds_from_image: recognise, fall back to the simulated
\* text, parse.
odds_from_image(image_data) ==
    bind(extract_text_external_api(image_data),
         LAMBDA text_data :
            except_return(IF no_text(text_data) THEN simulated_odds_data
                          ELSE parse_odds_from_text(text_data),
                          [error |-> "AttributeError"]))

\* extract_odds_from_image is a function of the image: its values for the
\* images of the model.
NoBackendFiles == {"imgN"}
odds_of == [image_data \in Files \cup NoBackendFiles |-> odds_from_image(image_data)]

extract_odds_from_image(image_data) == odds_of[image_data]

\* ------------------------------------------------------ lib/match_identifier.py
\* What the user types after "/new_match ": nothing, something that names no
\* match, or a match.
MatchTexts == {"", "???", "Real Madrid vs Barcelona"}

identify_match(match_text) ==
    IF match_text = "Real Madrid vs Barcelona"
    THEN [home_team |-> "Real Madrid", away_team |-> "Barcelona"]
    ELSE None

\* ----------------------------------------------------- lib/telegram_client.py
\* AUTHORIZED_USER_ID, and who sends updates: the authorized user, someone
\* else, and an update that names no sender.
authorized_user_id == "owner"
NoFrom == "no_from"
Senders == {authorized_user_id, "stranger", NoFrom}

\* An update: what it holds ('message', 'callback_query', or neither), its
\* ['from']['id'] and the chat it was sent in.
Updates ==
    [holds : {"message", "callback_query", "other"}, from : Senders, chat : Chats]

\* Mutant: every update counts as the authorized user's.
is_authorized_user_unchecked(update) == TRUE

\* is_authorized_user: the sender of a message or a callback query is compared
\* with AUTHORIZED_USER_ID; any other update, and one whose sender cannot be
\* read (the lookup raises, "except: return False"), is not authorized.
is_authorized_user(update) ==
    IF update.holds \notin {"message", "callback_query"} THEN FALSE
    ELSE IF update.from = NoFrom THEN FALSE
    ELSE update.from = authorized_user_id

\* ------------------------------------------------------------- api/webhook.py
\* A background task suspended at `pc`, with the locals it holds there.
Task(pc, chat_id, current_batch, file_id, i, extracted_data) ==
    [pc |-> pc, chat_id |-> chat_id, current_batch |-> current_batch,
     file_id |-> file_id, i |-> i, extracted_data |-> extracted_data]

suspend(t) == tasks (+) SetToBag({t})
resume(t) == tasks (-) SetToBag({t})
free_slot == BagCardinality(tasks) < Cardinality(Slots)

\* The uploads whose download is awaited, in the order telegram_webhook
\* scheduled their updates.  An upload whose image was stored while an earlier
\* one of the same batch is still downloading stays in the sequence, as
\* stored, until no such earlier one is left.
downloading(t) == [task |-> t, stored |-> FALSE]

overtaking(seq) ==
    {k \in 1..Len(seq) :
        \/ ~seq[k].stored
        \/ \E j \in 1..(k - 1) :
              /\ ~seq[j].stored
              /\ seq[j].task.current_batch.id = seq[k].task.current_batch.id}

only(seq, K) ==
    [i \in 1..Cardinality(K) |->
        seq[CHOOSE k \in K : Cardinality({j \in K : j < k}) = i - 1]]

\* The sequence when the handler at place k has ended, its image stored or not.
arrival_after(seq, k, stored) ==
    LET ended == IF stored THEN [seq EXCEPT ![k].stored = TRUE]
                 ELSE only(seq, (1..Len(seq)) \ {k})
    IN only(ended, overtaking(ended))

\* The step a handler just took: the command, the batch it worked on, the
\* message it sent with telegram.send_message ("" when it sent none) and the
\* number in it: the image count of "Imagen n/10", and for /new_match the id
\* of the batch that was discarded (0 when there was none), for a /process
\* that failed the image it was at.  An update that telegram_webhook dropped,
\* or that held no message, is a step without a batch and without a message.
Step(op, chat_id, batch_id, msg, n) ==
    [op |-> op, chat_id |-> chat_id, batch_id |-> batch_id, msg |-> msg, n |-> n]

\* Mutant: a batch that has been processed counts as no batch.
no_active_batch_open_only(current_batch) ==
    IF current_batch = None THEN TRUE ELSE current_batch.processed_at

\* "if not current_batch" of the handlers.
no_active_batch(current_batch) == current_batch = None

\* Mutant: the image check left out.
no_images_unchecked(current_batch) == FALSE

\* "if not current_batch['images']" of process_current_batch.
no_images(current_batch) == current_batch.images = <<>>

\* Mutant: the extracted-data check left out.
no_extracted_data_unchecked(current_batch) == FALSE

\* "not current_batch.get('extracted_data')" of send_to_bot2.
no_extracted_data(current_batch) == ~truthy(current_batch.extracted_data)

\* Mutant: the batch is marked whatever the delivery returned.
mark_if_sent_always(tbl, batch_id, success) == mark_batch_as_sent(tbl, batch_id)

\* "if success: await db.mark_batch_as_sent(...)" of send_to_bot2.
mark_if_sent(tbl, batch_id, success) ==
    IF success THEN mark_batch_as_sent(tbl, batch_id) ELSE tbl

\* Mutant: the loop starts from the record stored on the batch.
fresh_record_from_stored(current_batch) == current_batch.extracted_data

\* "extracted_data = {}" before the loop of process_current_batch.
fresh_record(current_batch) == EmptyDict

ImageKinds == {"photo", "document_image", "document_other"}

\* Mutant: the check of the identified match left out.
no_match_info_unchecked(match_info) == FALSE

\* "if not match_info" of start_new_match.
no_match_info(match_info) == match_info = None

\* start_new_match: "/new_match <match_text>".
start_new_match(chat_id, match_text, max_batches) ==
    LET match_info == identify_match(match_text)
        db == start_new_batch(capture_batches, capture_images, chat_id, match_info, uuid)
    IN /\ UNCHANGED <<tasks, delivered, clock, recognised, parsed, arrival>>
       /\ IF match_text = ""
          THEN /\ last' = Step("new_match", chat_id, 0, "missing_match", 0)
               /\ UNCHANGED <<capture_batches, capture_images, uuid>>
          ELSE IF no_match_info(match_info)
          THEN /\ last' = Step("new_match", chat_id, 0, "unidentified", 0)
               /\ UNCHANGED <<capture_batches, capture_images, uuid>>
          ELSE /\ uuid <= max_batches
               /\ capture_batches' = db.tbl
               /\ capture_images' = db.sto
               /\ uuid' = uuid + 1
               /\ last' = Step("new_match", chat_id, uuid, "match_started",
                            get_current_batch(capture_batches, chat_id).id)

\* clear_current_batch (the /clear handler).
clear_command(chat_id) ==
    LET db == clear_current_batch(capture_batches, capture_images, chat_id)
    IN /\ capture_batches' = db.tbl
       /\ capture_images' = db.sto
       /\ last' = Step("clear", chat_id, get_current_batch(capture_batches, chat_id).id,
                       "cleared", 0)
       /\ UNCHANGED <<tasks, delivered, uuid, clock, recognised, parsed, arrival>>

\* handle_image_message up to its first await: the batch check, the kind of
\* attachment, then the download is awaited.  An upload is taken up only while
\* a file name is left for it and for every task in flight (max_files bounds
\* the run, the code has no such limit).
handle_image_message(chat_id, kind, file_id, max_files) ==
    LET current_batch == get_current_batch(capture_batches, chat_id)
        in_flight == BagCardinality(tasks)
    IN /\ UNCHANGED <<capture_batches, capture_images, delivered, uuid, clock,
                      recognised, parsed>>
       /\ IF no_active_batch(current_batch)
          THEN /\ last' = Step("image", chat_id, 0, "need_match", 0)
               /\ UNCHANGED <<tasks, arrival>>
          ELSE IF kind = "document_other"
          THEN /\ last' = Step("image", chat_id, current_batch.id, "not_image", 0)
               /\ UNCHANGED <<tasks, arrival>>
          ELSE /\ free_slot
               /\ clock + in_flight <= max_files
               /\ tasks' = suspend(Task("download", chat_id, current_batch, file_id, 0,
                                        EmptyDict))
               /\ arrival' = Append(arrival,
                                    downloading(Task("download", chat_id, current_batch,
                                                     file_id, 0, EmptyDict)))
               /\ last' = Step("image", chat_id, current_batch.id,
                               IF kind = "photo" THEN "photo_hint" ELSE "", 0)

\* handle_image_message after telegram.download_file returned (or raised):
\* add_image_to_batch, the batch read again, the status message.
image_downloaded(t, ok) ==
    LET db == add_image_to_batch(capture_batches, capture_images, t.current_batch.id,
                                 t.file_id, t.file_id, clock)
        updated_batch == get_current_batch(db.tbl, t.chat_id)
    IN /\ t.pc = "download"
       /\ tasks' = resume(t)
       /\ \E k \in 1..Len(arrival) :
             /\ arrival[k] = downloading(t)
             /\ arrival' = arrival_after(arrival, k, ok /\ ~db.raised)
       /\ UNCHANGED <<delivered, uuid, recognised, parsed>>
       /\ IF ~ok
          THEN /\ last' = Step("image", t.chat_id, t.current_batch.id, "image_error", 0)
               /\ UNCHANGED <<capture_batches, capture_images, clock>>
          ELSE /\ capture_batches' = db.tbl
               /\ capture_images' = db.sto
               /\ clock' = clock + 1
               /\ last' = IF db.raised \/ updated_batch = None
                          THEN Step("image", t.chat_id, t.current_batch.id, "image_error", 0)
                          ELSE Step("image", t.chat_id, t.current_batch.id, "image_received",
                                    Len(updated_batch.images))

\* process_current_batch up to its first await: the batch and image checks,
\* then the "Procesando ..." message is awaited.
process_current_batch(chat_id) ==
    LET current_batch == get_current_batch(capture_batches, chat_id)
    IN /\ UNCHANGED <<capture_batches, capture_images, delivered, uuid, clock,
                      recognised, parsed, arrival>>
       /\ IF no_active_batch(current_batch)
          THEN /\ last' = Step("process", chat_id, 0, "no_batch", 0)
               /\ UNCHANGED tasks
          ELSE IF no_images(current_batch)
          THEN /\ last' = Step("process", chat_id, current_batch.id, "no_images", 0)
               /\ UNCHANGED tasks
          ELSE /\ free_slot
               /\ tasks' = suspend(Task("ocr", chat_id, current_batch, "", 1,
                                        fresh_record(current_batch)))
               /\ last' = Step("process", chat_id, current_batch.id, "processing", 0)

\* Mutant: the record is written behind every image.
saved_after_each_image(tbl, current_batch, i, extracted_data) ==
    save_extracted_data(tbl, current_batch.id, extracted_data)

\* Mutant: the record is written to the batch that is current at that time.
saved_after_to_current(tbl, current_batch, i, extracted_data) ==
    IF i < Len(current_batch.images) THEN tbl
    ELSE save_extracted_data(tbl, get_current_batch(tbl, current_batch.chat_id).id,
                             extracted_data)

\* "await db.save_extracted_data(...)" stands behind the loop: the table as it
\* is after image i of the batch.
saved_after(tbl, current_batch, i, extracted_data) ==
    IF i < Len(current_batch.images) THEN tbl
    ELSE save_extracted_data(tbl, current_batch.id, extracted_data)

\* One turn of the loop of process_current_batch, from the return of its
\* "Procesando imagen i/n" message to the next await: the file is read
\* (get_image_data raises when it is gone or the download fails, and the
\* handler ends in its except branch), its odds are merged with dict.update,
\* and after the last image the result is saved.
process_image(t) ==
    \E downloaded \in BOOLEAN :
        LET image_info == t.current_batch.images[t.i]
            odds_data == extract_odds_from_image(capture_images[image_info.filename])
            extracted_data == IF truthy(odds_data)
                              THEN dict_update(t.extracted_data, odds_data)
                              ELSE t.extracted_data
        IN /\ t.pc = "ocr"
           /\ UNCHANGED <<capture_images, delivered, uuid, clock, recognised, parsed,
                         arrival>>
           /\ IF ~downloaded \/ image_info.filename \notin DOMAIN capture_images
              THEN /\ tasks' = resume(t)
                   /\ last' = Step("process", t.chat_id, t.current_batch.id,
                                   "process_error", t.i)
                   /\ UNCHANGED capture_batches
              ELSE /\ capture_batches' =
                          saved_after(capture_batches, t.current_batch, t.i, extracted_data)
                   /\ IF t.i < Len(t.current_batch.images)
                      THEN /\ tasks' = resume(t)
                                       (+) SetToBag({[t EXCEPT !.i = t.i + 1,
                                                       !.extracted_data = extracted_data]})
                           /\ last' = Step("process", t.chat_id, t.current_batch.id,
                                           "processing_image", 0)
                      ELSE /\ tasks' = resume(t)
                           /\ last' = Step("process", t.chat_id, t.current_batch.id,
                                           "completed", 0)

\* The payload send_to_bot2 builds from the batch it read.
payload(current_batch) ==
    [match_info |-> current_batch.match_info, odds_data |-> current_batch.extracted_data,
     timestamp |-> current_batch.created_at, source |-> "capture_manager_bot"]

\* send_to_bot2 up to its await of data_sender.send_to_predictions_bot.
send_to_bot2(chat_id) ==
    LET current_batch == get_current_batch(capture_batches, chat_id)
    IN /\ UNCHANGED <<capture_batches, capture_images, delivered, uuid, clock,
                      recognised, parsed, arrival>>
       /\ IF no_active_batch(current_batch) \/ no_extracted_data(current_batch)
          THEN /\ last' = Step("send", chat_id, current_batch.id, "no_data", 0)
               /\ UNCHANGED tasks
          ELSE /\ free_slot
               /\ tasks' = suspend(Task("deliver", chat_id, current_batch, "", 0, EmptyDict))
               /\ last' = Step("send", chat_id, current_batch.id, "", 0)

\* send_to_bot2 after send_to_predictions_bot returned `success` (it returns
\* False for every failure and never raises): Bot 2 has the payload exactly
\* when it answered 200.
delivery_returned(t, success) ==
    /\ t.pc = "deliver"
    /\ tasks' = resume(t)
    /\ delivered' = IF success
                    THEN delivered \cup {[batch_id |-> t.current_batch.id,
                                          payload |-> payload(t.current_batch)]}
                    ELSE delivered
    /\ capture_batches' = mark_if_sent(capture_batches, t.current_batch.id, success)
    /\ last' = Step("send", t.chat_id, t.current_batch.id,
                    IF success THEN "sent" ELSE "send_failed", 0)
    /\ UNCHANGED <<capture_images, uuid, clock, recognised, parsed, arrival>>

\* handle_text_message and handle_image_message: the commands and uploads of a
\* message in the chat chat_id.
handle_message(chat_id) ==
    \/ \E match_text \in MatchTexts : start_new_match(chat_id, match_text, MaxBatches)
    \/ clear_command(chat_id)
    \/ \E kind \in ImageKinds, file_id \in Files :
           handle_image_message(chat_id, kind, file_id, MaxFiles)
    \/ process_current_batch(chat_id)
    \/ send_to_bot2(chat_id)

\* telegram_webhook: an update that is not the authorized user's is answered
\* {"ok": True, "message": "Unauthorized"} and dropped; any other is handed to
\* process_telegram_update as a background task, which handles a message and
\* does nothing with an update that holds none.
telegram_webhook(update) ==
    IF ~is_authorized_user(update)
    THEN /\ last' = Step("unauthorized", update.chat, 0, "", 0)
         /\ UNCHANGED <<capture_batches, capture_images, tasks, delivered, uuid, clock,
                        recognised, parsed, arrival>>
    ELSE IF update.holds = "message"
    THEN handle_message(update.chat)
    ELSE /\ last' = Step("no_message", update.chat, 0, "", 0)
         /\ UNCHANGED <<capture_batches, capture_images, tasks, delivered, uuid, clock,
                        recognised, parsed, arrival>>

\* ------------------------------------------------------------ specification
Init ==
    /\ capture_batches = [b \in {} |-> None]
    /\ capture_images = [f \in {} |-> ""]
    /\ tasks = EmptyBag
    /\ delivered = {}
    /\ last = Step("", "", 0, "", 0)
    /\ uuid = 1
    /\ clock = 1
    /\ recognised = <<>>
    /\ parsed = None
    /\ arrival = <<>>

\* process_telegram_update for the updates of the sessions `chats`, and the
\* resumption of the suspended tasks.
process_telegram_update(chats) ==
    \/ \E chat_id \in chats, match_text \in MatchTexts :
           start_new_match(chat_id, match_text, MaxBatches)
    \/ \E chat_id \in chats : clear_command(chat_id)
    \/ \E chat_id \in chats, kind \in ImageKinds, file_id \in Files :
           handle_image_message(chat_id, kind, file_id, MaxFiles)
    \/ \E t \in BagToSet(tasks), ok \in BOOLEAN : image_downloaded(t, ok)
    \/ \E chat_id \in chats : process_current_batch(chat_id)
    \/ \E t \in BagToSet(tasks) : process_image(t)
    \/ \E chat_id \in chats : send_to_bot2(chat_id)
    \/ \E t \in BagToSet(tasks), success \in BOOLEAN : delivery_returned(t, success)

\* All sessions.
Next == process_telegram_update(Chats)

Spec == Init /\ [][Next]_vars

\* One session, its handlers interleaved at their awaits.
NextSession == process_telegram_update({"c1"})

SpecSession == Init /\ [][NextSession]_vars

\* One session uploading documents of one image, with room for one upload more
\* than the ten the messages speak of.
NextCapacity ==
    \/ \E match_text \in MatchTexts : start_new_match("c1", match_text, MaxBatches)
    \/ clear_command("c1")
    \/ handle_image_message("c1", "document_image", "imgA", Capacity + 1)
    \/ \E t \in BagToSet(tasks), ok \in BOOLEAN : image_downloaded(t, ok)

SpecCapacity == Init /\ [][NextCapacity]_vars

\* One session uploading images no recognition backend returns a text for.
NextNoBackend ==
    \/ \E match_text \in MatchTexts : start_new_match("c1", match_text, MaxBatches)
    \/ clear_command("c1")
    \/ \E kind \in ImageKinds, file_id \in NoBackendFiles :
           handle_image_message("c1", kind, file_id, MaxFiles)
    \/ \E t \in BagToSet(tasks), ok \in BOOLEAN : image_downloaded(t, ok)
    \/ process_current_batch("c1")
    \/ \E t \in BagToSet(tasks) : process_image(t)
    \/ send_to_bot2("c1")
    \/ \E t \in BagToSet(tasks), success \in BOOLEAN : delivery_returned(t, success)

SpecNoBackend == Init /\ [][NextNoBackend]_vars

\* The webhook with the updates of every sender, in the chat of the authorized
\* user's session, and the resumption of the suspended tasks.
NextWebhook ==
    \/ \E update \in Updates : update.chat = "c1" /\ telegram_webhook(update)
    \/ \E t \in BagToSet(tasks), ok \in BOOLEAN : image_downloaded(t, ok)
    \/ \E t \in BagToSet(tasks) : process_image(t)
    \/ \E t \in BagToSet(tasks), success \in BOOLEAN : delivery_returned(t, success)

SpecWebhook == Init /\ [][NextWebhook]_vars

\* The parser on its own: a recognised text is at most MaxItems items, each
\* with the tokens of one phrase of a bookmaker's page, and
\* parse_odds_from_text is applied to it.
Phrases ==
    {<<"2.10">>, <<"3.40">>, <<"1.00">>,
     <<"Real", "Madrid", "2.10">>, <<"Empate", "3.40">>, <<"Barcelona", "3.20">>,
     <<"Más", "de", "2.5", "1.66", "Menos", "de", "2.5", "2.20">>,
     <<"2.5">>, <<"2,5">>,
     <<"Ambos", "equipos", "anotarán", "Sí", "1.57", "No", "2.25">>,
     <<"Corners", "Over", "11", "1.90">>, <<"Kylian", "Mbappé", "4.50">>,
     <<NL>>}

TextData ==
    UNION {[1..n -> {[text |-> phrase, confidence |-> "0.8"] : phrase \in Phrases}] :
              n \in 0..MaxItems}

InitParser ==
    /\ capture_batches = [b \in {} |-> None]
    /\ capture_images = [f \in {} |-> ""]
    /\ tasks = EmptyBag
    /\ delivered = {}
    /\ last = Step("", "", 0, "", 0)
    /\ uuid = 1
    /\ clock = 1
    /\ recognised \in TextData
    /\ parsed = None
    /\ arrival = <<>>

parse_text ==
    /\ parsed = None
    /\ parsed' = parse_odds_from_text(recognised)
    /\ UNCHANGED <<capture_batches, capture_images, tasks, delivered, last, uuid, clock,
                   recognised, arrival>>

NextParser == parse_text

SpecParser == InitParser /\ [][NextParser]_vars

\* ------------------------------------------------------------------ claims
\* The states of a batch row, read off its columns.
OPEN(row) == ~row.sent_to_bot2 /\ ~row.processed_at
PROCESSED(row) == ~row.sent_to_bot2 /\ row.processed_at
SENT(row) == row.sent_to_bot2

batches_of(chat_id) == {b \in DOMAIN capture_batches : capture_batches[b].chat_id = chat_id}
current(chat_id) == get_current_batch(capture_batches, chat_id)
is_prefix(p, q) == Len(p) <= Len(q) /\ SubSeq(q, 1, Len(p)) = p

\* C1: in every reachable state a batch holds at most 10 images (an upload for
\* a batch that has 10 is rejected and the batch keeps exactly 10).
C1_AtMostTenImages ==
    \A b \in DOMAIN capture_batches : Len(capture_batches[b].images) <= Capacity

C3_SentRejectsImage ==
    [][last'.op = "image" => \A c \in {last'.chat_id}, k \in ImageKinds, f \in Files :
          handle_image_message(c, k, f, MaxFiles) =>
             /\ (/\ batches_of(c) # {}
                 /\ \A b \in batches_of(c) : SENT(capture_batches[b]))
                => /\ last' = Step("image", c, 0, "need_match", 0)
                   /\ UNCHANGED <<capture_batches, capture_images, tasks, delivered>>
             /\ \A t \in BagToSet(tasks') :
                   CopiesIn(t, tasks') > CopiesIn(t, tasks) => ~SENT(t.current_batch)]_vars

\* Witness of C3: an upload was refused in a session that has a SENT batch.
C3_Witness ==
    /\ last.op = "image" /\ last.msg = "need_match"
    /\ \E b \in batches_of(last.chat_id) :
          /\ SENT(capture_batches[b])
          /\ capture_batches[b].images # <<>>
          /\ truthy(capture_batches[b].extracted_data)

\* C4: /send on a batch that was never processed reports "no data", starts no
\* delivery and marks nothing; no delivery is ever in flight for a batch that
\* was not processed, and no batch is SENT without having been processed.
C4_SendNeedsProcessed ==
    /\ [][\A c \in Chats :
             (/\ last'.op = "send" /\ last'.chat_id = c
              /\ send_to_bot2(c) /\ current(c) # None /\ OPEN(current(c)))
             => /\ last' = Step("send", c, current(c).id, "no_data", 0)
                /\ UNCHANGED <<capture_batches, capture_images, tasks, delivered>>]_vars
    /\ [](\A t \in BagToSet(tasks) : t.pc = "deliver" => t.current_batch.processed_at)
    /\ [](\A b \in DOMAIN capture_batches :
             SENT(capture_batches[b]) => capture_batches[b].processed_at)

\* Witness of C4: /send was refused on an OPEN batch that has images.
C4_Witness ==
    /\ last.op = "send" /\ last.msg = "no_data"
    /\ last.batch_id \in DOMAIN capture_batches
    /\ OPEN(capture_batches[last.batch_id])
    /\ capture_batches[last.batch_id].images # <<>>

\* C5: /process on a batch without images reports "no images" and changes
\* nothing; no batch without images is ever marked processed.
C5_ProcessNeedsImages ==
    /\ [][\A c \in Chats :
             (/\ last'.op = "process" /\ last'.chat_id = c
              /\ process_current_batch(c) /\ current(c) # None /\ current(c).images = <<>>)
             => /\ last' = Step("process", c, current(c).id, "no_images", 0)
                /\ UNCHANGED <<capture_batches, capture_images, tasks, delivered>>]_vars
    /\ [](\A b \in DOMAIN capture_batches :
             capture_batches[b].images = <<>> => /\ ~capture_batches[b].processed_at
                                                 /\ ~truthy(capture_batches[b].extracted_data))

\* Witness of C5: /process was refused on an OPEN batch with no image.
C5_Witness ==
    /\ last.op = "process" /\ last.msg = "no_images"
    /\ last.batch_id \in DOMAIN capture_batches
    /\ OPEN(capture_batches[last.batch_id])
    /\ capture_batches[last.batch_id].images = <<>>

\* C6: a delivery that fails leaves the batch rows, the stored images and Bot 2
\* as they were, so the batch stays PROCESSED; and a /send only reads: the
\* payload it hands to the delivery is built from the odds stored on the row,
\* and the row is left alone.
C6_FailedDeliveryKeepsBatch ==
    /\ [][last'.op = "send" => \A t \in BagToSet(tasks) :
             delivery_returned(t, FALSE)
             => UNCHANGED <<capture_batches, capture_images, delivered>>]_vars
    /\ [][last'.op = "send" => \A c \in {last'.chat_id} :
             (send_to_bot2(c) /\ tasks' # tasks)
             => /\ UNCHANGED <<capture_batches, capture_images, delivered>>
                /\ PROCESSED(current(c))
                /\ \E t \in BagToSet(tasks') :
                      /\ CopiesIn(t, tasks') > CopiesIn(t, tasks)
                      /\ t.pc = "deliver"
                      /\ payload(t.current_batch).odds_data
                            = capture_batches[current(c).id].extracted_data]_vars

\* Witness of C6: a delivery failed and its batch is still PROCESSED, odds and
\* images in place.
C6_Witness ==
    /\ last.op = "send" /\ last.msg = "send_failed"
    /\ last.batch_id \in DOMAIN capture_batches
    /\ PROCESSED(capture_batches[last.batch_id])
    /\ truthy(capture_batches[last.batch_id].extracted_data)
    /\ capture_batches[last.batch_id].images # <<>>
    /\ current(last.chat_id) = capture_batches[last.batch_id]

\* C7: a batch is SENT only if Bot 2 accepted a payload built from that batch.
C7_SentOnlyAfterDelivery ==
    \A b \in DOMAIN capture_batches :
        SENT(capture_batches[b]) =>
            \E d \in delivered :
                /\ d.batch_id = b
                /\ d.payload.match_info = capture_batches[b].match_info
                /\ d.payload.timestamp = capture_batches[b].created_at

\* Witness of C7: a batch is SENT.
C7_Witness ==
    \E b \in DOMAIN capture_batches :
        SENT(capture_batches[b]) /\ capture_batches[b].sent_at

C9_ClearRemovesBatch ==
    last.op = "clear" => batches_of(last.chat_id) = {}

\* The markets with one value per batch, and the fragment an image yields.
ScalarMarkets == {"1x2", "over_under", "btts"}
fragment(image_info) == extract_odds_from_image(capture_images[image_info.filename])
first_with(images, market) ==
    CHOOSE i \in 1..Len(images) :
        /\ market \in DOMAIN fragment(images[i])
        /\ \A j \in 1..(i - 1) : market \notin DOMAIN fragment(images[j])

MultiMarkets == {"corners", "players"}
has_key(odds_data, m, k) == m \in DOMAIN odds_data /\ k \in DOMAIN odds_data[m]
first_with_key(images, m, k) ==
    CHOOSE i \in 1..Len(images) :
        /\ has_key(fragment(images[i]), m, k)
        /\ \A j \in 1..(i - 1) : ~has_key(fragment(images[j]), m, k)

RECURSIVE aggregate(_, _)
aggregate(images, n) ==
    IF n = 0 THEN EmptyDict
    ELSE LET odds_data == fragment(images[n])
         IN IF truthy(odds_data) THEN dict_update(aggregate(images, n - 1), odds_data)
            ELSE aggregate(images, n - 1)

\* C12: aggregation is a function of the ordered list of fragments.  Two
\* /process runs that are at the same image of the same list hold the same
\* partial record, whatever was stored when each of them started; and a run that
\* completes stores the record the list determines, whatever the batch held
\* before and whatever ran in between, so that aggregating a list twice stores
\* the same record twice.
C12_AggregationIsAFunction ==
    /\ [](\A t1, t2 \in BagToSet(tasks) :
             (/\ t1.pc = "ocr" /\ t2.pc = "ocr"
              /\ t1.current_batch.images = t2.current_batch.images
              /\ t1.i = t2.i)
             => t1.extracted_data = t2.extracted_data)
    /\ [][(last'.op = "process" /\ last'.msg = "completed") =>
             \A t \in BagToSet(tasks) :
                (/\ process_image(t)
                 /\ t.current_batch.id \in DOMAIN capture_batches
                 /\ filenames(t.current_batch.images) \subseteq DOMAIN capture_images)
                => capture_batches'[t.current_batch.id].extracted_data
                      = aggregate(t.current_batch.images, Len(t.current_batch.images))]_vars

\* Witness of C12: two runs over the same list of two images are at its second
\* image while the batch already holds the record of an earlier run.
C12_Witness ==
    \E t \in BagToSet(tasks) :
        /\ t.pc = "ocr" /\ t.i = 2 /\ CopiesIn(t, tasks) = 2
        /\ t.current_batch.id \in DOMAIN capture_batches
        /\ capture_batches[t.current_batch.id].images = t.current_batch.images
        /\ PROCESSED(capture_batches[t.current_batch.id])
        /\ truthy(t.extracted_data)

\* 1/x of odds in millionths, and the band of the implied probability of a
\* triple, 0.95 to 1.20.
implied(x) == 100000000 \div float[x]
in_band(home, draw, away) ==
    /\ 950000 <= implied(home) + implied(draw) + implied(away)
    /\ implied(home) + implied(draw) + implied(away) <= 1200000

\* C13: the 1X2 market of a parsed text is a triple whose three odds are in
\* their ranges (1.01 to 50, 1.01 to 15, 1.01 to 50) and whose implied
\* probability 1/home + 1/draw + 1/away is between 0.95 and 1.20; a triple
\* outside the band gives no 1X2 market.
C13_ImpliedProbabilityBand ==
    (parsed # None /\ "1x2" \in DOMAIN parsed)
    => /\ reasonable_1x2(<<parsed["1x2"].home, parsed["1x2"].draw, parsed["1x2"].away>>)
       /\ in_band(parsed["1x2"].home, parsed["1x2"].draw, parsed["1x2"].away)

\* The text a parsed text_data was joined to.
full_text == join(recognised)

\* The three odds of the page of the end-to-end scenario, each behind its label.
LabeledPage == <<"Real", "Madrid", "2.10", "Empate", "3.40", "Barcelona", "3.20">>

\* C14: a text that starts with the labeled triple "Real Madrid 2.10 Empate
\* 3.40 Barcelona 3.20" is parsed to the 1X2 market home 2.10, draw 3.40, away
\* 3.20: the labeled pattern finds the three odds between their labels.
C14_LabeledTriple ==
    (parsed # None /\ is_prefix(LabeledPage, full_text))
    => /\ "1x2" \in DOMAIN parsed
       /\ parsed["1x2"].home = "2.10"
       /\ parsed["1x2"].draw = "3.40"
       /\ parsed["1x2"].away = "3.20"

\* The pairs of odds a text binds to a more/over and a less/under label of the
\* line: the matches of the two labeled patterns.
labeled_pairs(text) ==
    UNION {{matches[j] : j \in DOMAIN matches} :
              matches \in {re_findall(patterns_over_under[n], text) : n \in {1, 2}}}

\* C15: the over/under market of a parsed text has its line marker ("2.5" or
\* "2,5") in the text, its two odds are bound in the text to a more/over and a
\* less/under label, and each is between 1.01 and 10.0; a pair of odds without
\* labels gives no over/under market.
C15_OverUnderLabeled ==
    (parsed # None /\ "over_under" \in DOMAIN parsed)
    => /\ in_text({"2.5", "2,5"}, full_text)
       /\ <<parsed["over_under"].over_2_5, parsed["over_under"].under_2_5>>
             \in labeled_pairs(full_text)
       /\ 101 <= float[parsed["over_under"].over_2_5]
       /\ float[parsed["over_under"].over_2_5] <= 1000
       /\ 101 <= float[parsed["over_under"].under_2_5]
       /\ float[parsed["over_under"].under_2_5] <= 1000

\* The odds markets of a record.
Markets == {"1x2", "over_under", "btts", "corners", "players"}

\* C16: with no recognition backend (no image has a recognised text) the
\* record stored on a batch holds no odds market: what stands in for the
\* recognised text is a placeholder the parser extracts nothing from.
C16_NoBackendNoMarket ==
    \A b \in DOMAIN capture_batches :
        DOMAIN capture_batches[b].extracted_data \cap Markets = {}

\* C17: parsing a text raises nothing.  Each of the six extractors returns a
\* value for the text, parse_odds_from_text returns a mapping without an error
\* marker, and a key is in that mapping exactly when its extractor found
\* something, with what it found as the value: a market without a match or
\* with odds out of range is left out.
C17_ParsingNeverRaises ==
    parsed # None
    => /\ parsed # Raised
       /\ "parse_error" \notin DOMAIN parsed
       /\ \A entry \in {entries(full_text)} :
             \A j \in 1..Len(entry) :
                LET k == entry[j][1]
                    v == entry[j][2]
                IN /\ v # Raised
                   /\ k \in DOMAIN parsed <=> truthy(v)
                   /\ k \in DOMAIN parsed => parsed[k] = v

\* Witness of C17: a parsed text with the line marker "2,5" and no pair of
\* odds, for which match.groups() raised inside extract_over_under_odds, and
\* the result without the over/under market.
C17_Witness ==
    /\ parsed # None
    /\ in_text(Has2Comma5, full_text)
    /\ over_under_from(full_text, 1) = Raised
    /\ "over_under" \notin DOMAIN parsed

C19_ReprocessFromScratch ==
    /\ [][\A c \in Chats :
             (/\ last'.op = "process" /\ last'.chat_id = c
              /\ process_current_batch(c)
              /\ current(c) # None
              /\ PROCESSED(current(c))
              /\ ~no_images(current(c)))
             => /\ last'.msg = "processing"
                /\ \E t \in BagToSet(tasks') :
                      /\ t.pc = "ocr" /\ t.i = 1 /\ t.extracted_data = EmptyDict
                      /\ t.current_batch = current(c)
                      /\ CopiesIn(t, tasks') = CopiesIn(t, tasks) + 1]_vars
    /\ [][(last'.op = "process" /\ last'.msg = "completed") =>
             \A t \in BagToSet(tasks) :
                (/\ process_image(t)
                 /\ t.current_batch.id \in DOMAIN capture_batches
                 /\ PROCESSED(capture_batches[t.current_batch.id])
                 /\ filenames(t.current_batch.images) \subseteq DOMAIN capture_images)
                => /\ capture_batches'[t.current_batch.id].extracted_data
                         = aggregate(t.current_batch.images, Len(t.current_batch.images))
                   /\ capture_batches'[t.current_batch.id].images
                         = capture_batches[t.current_batch.id].images
                   /\ PROCESSED(capture_batches'[t.current_batch.id])]_vars

\* Witness of C19: a /process has completed on a batch of two images while a
\* delivery that read the batch after its first /process is still in flight
\* with the record of that time, which is not the record of the row now.
C19_Witness ==
    /\ last.op = "process" /\ last.msg = "completed"
    /\ last.batch_id \in DOMAIN capture_batches
    /\ Len(capture_batches[last.batch_id].images) = 2
    /\ \E t \in BagToSet(tasks) :
          /\ t.pc = "deliver"
          /\ t.current_batch.id = last.batch_id
          /\ truthy(t.current_batch.extracted_data)
          /\ t.current_batch.extracted_data
                # capture_batches[last.batch_id].extracted_data

\* C20: a /process run writes nothing before its last image.  A turn of its
\* loop that is not the last one, and a turn that fails because the file of
\* the image cannot be read, leave every batch row and every stored file as
\* they were (an OPEN batch stays OPEN without a record and keeps its images,
\* so that /process can be run again); the failed run is over and what it had
\* aggregated is in no task.
C20_NoPartialCommit ==
    [][last'.op = "process" =>
          \A t \in BagToSet(tasks) :
             (/\ process_image(t)
              /\ last'.msg \in {"processing_image", "process_error"})
             => /\ UNCHANGED <<capture_batches, capture_images, delivered>>
                /\ last'.msg = "process_error" =>
                      /\ tasks' = resume(t)
                      /\ current(t.chat_id)' = current(t.chat_id)]_vars

\* Witness of C20: a run over an OPEN batch of two images has failed at the
\* second one, the files of both in the store, and the batch is OPEN with its
\* two images and no record.
C20_Witness ==
    /\ last.op = "process" /\ last.msg = "process_error" /\ last.n = 2
    /\ last.batch_id \in DOMAIN capture_batches
    /\ OPEN(capture_batches[last.batch_id])
    /\ Len(capture_batches[last.batch_id].images) = 2
    /\ filenames(capture_batches[last.batch_id].images) \subseteq DOMAIN capture_images
    /\ capture_batches[last.batch_id].extracted_data = EmptyDict
    /\ tasks = EmptyBag

\* C21: a /new_match without a match text, or with a text identify_match does
\* not resolve, is answered with the message that says so and changes nothing:
\* no row is inserted, and the rows and the stored images (the session's unsent
\* batch among them) are as they were.
C21_MalformedStartNoEffect ==
    [][last'.op = "new_match" => \A c \in {last'.chat_id}, m \in MatchTexts :
          (/\ start_new_match(c, m, MaxBatches)
           /\ (m = "" \/ identify_match(m) = None))
          => /\ last'.msg = (IF m = "" THEN "missing_match" ELSE "unidentified")
             /\ UNCHANGED <<capture_batches, capture_images, tasks, delivered, uuid>>]_vars

\* Witness of C21: an unresolved /new_match was answered in a session whose
\* unsent batch holds an image, and the batch and its file are in place.
C21_Witness ==
    /\ last.op = "new_match" /\ last.msg = "unidentified"
    /\ current(last.chat_id) # None
    /\ current(last.chat_id).images # <<>>
    /\ filenames(current(last.chat_id).images) \subseteq DOMAIN capture_images

\* C22: a batch that is SENT keeps its images and its consolidated odds in
\* every step, whichever handler takes it: an image upload or a /process that
\* read the batch before it was marked and completes afterwards changes neither.
C22_SentIsImmutable ==
    [][\A b \in DOMAIN capture_batches :
          SENT(capture_batches[b])
          => /\ b \in DOMAIN capture_batches'
             /\ capture_batches'[b].images = capture_batches[b].images
             /\ capture_batches'[b].extracted_data = capture_batches[b].extracted_data]_vars

\* C23: when a /process has completed (its result stored), every image of the
\* batch it ran on has its processed flag set.
C23_ImagesMarkedProcessed ==
    (/\ last.op = "process" /\ last.msg = "completed"
     /\ last.batch_id \in DOMAIN capture_batches)
    => \A i \in 1..Len(capture_batches[last.batch_id].images) :
          capture_batches[last.batch_id].images[i].processed

\* C24: no two /process runs of one batch are in flight at the same time: a
\* second run of a batch starts only when the first has stored its result or
\* failed.
C24_ProcessSerialized ==
    \A t \in BagToSet(tasks) :
       t.pc = "ocr"
       => /\ CopiesIn(t, tasks) = 1
          /\ \A o \in BagToSet(tasks) :
                (o.pc = "ocr" /\ o.current_batch.id = t.current_batch.id) => o = t

\* C25: a step taken for one session (a command, an upload, or the resumption
\* of one of its suspended handlers) leaves the batches of every other session
\* as they were: the same rows exist, each with the same images, odds and sent
\* flag, and the stored files of their images are untouched.
C25_SessionsIsolated ==
    [][\A other \in Chats \ {last'.chat_id} :
          /\ {b \in DOMAIN capture_batches' : capture_batches'[b].chat_id = other}
                = batches_of(other)
          /\ \A b \in batches_of(other) :
                /\ capture_batches'[b] = capture_batches[b]
                /\ \A f \in filenames(capture_batches[b].images) \cap DOMAIN capture_images :
                      /\ f \in DOMAIN capture_images'
                      /\ capture_images'[f] = capture_images[f]]_vars

\* Witness of C25: a /clear of one session discarded that session's batch
\* while the other session has a batch with a stored image and a handler
\* suspended at an await.
C25_Witness ==
    /\ last.op = "clear" /\ last.batch_id # 0
    /\ \E other \in Chats \ {last.chat_id} :
          /\ current(other) # None
          /\ current(other).images # <<>>
          /\ filenames(current(other).images) \subseteq DOMAIN capture_images
          /\ \E t \in BagToSet(tasks) : t.chat_id = other

\* C26: the image list of a batch only grows at its end while the batch
\* exists, a /process goes through the images in the order of the list, and the
\* list follows the arrival of the uploads: when the image of an upload is
\* stored, no upload of the same batch that arrived after it (with another
\* file, so that the two entries can be told apart) has its image in the list
\* already.
C26_AppendOnlyArrivalOrder ==
    /\ [][\A b \in DOMAIN capture_batches \cap DOMAIN capture_batches' :
             is_prefix(capture_batches[b].images, capture_batches'[b].images)]_vars
    /\ [](\A t \in BagToSet(tasks) :
             (t.pc = "ocr" /\ t.current_batch.id \in DOMAIN capture_batches)
             => is_prefix(t.current_batch.images,
                          capture_batches[t.current_batch.id].images))
    /\ [][last'.op = "image" => \A k \in 1..Len(arrival) :
             (/\ ~arrival[k].stored
              /\ arrival[k].task.current_batch.id \in DOMAIN capture_batches
              /\ image_downloaded(arrival[k].task, TRUE)
              /\ arrival' = arrival_after(arrival, k, TRUE))
             => \A j \in (k + 1)..Len(arrival) :
                   ~(/\ arrival[j].stored
                     /\ arrival[j].task.file_id # arrival[k].task.file_id
                     /\ arrival[j].task.current_batch.id
                           = arrival[k].task.current_batch.id)]_vars

\* C27: a handler that resumes after an await (the download of an upload, a
\* turn of the /process loop, the delivery of a /send) writes to no row but the
\* one it read when it started: every other row, the batch that replaced it
\* after a /clear or a /new_match among them, is as it was, and no row appears.
C27_WritesOnlyItsBatch ==
    [][last'.op \in {"image", "process", "send"} => \A t \in BagToSet(tasks) :
          (\/ \E ok \in BOOLEAN : image_downloaded(t, ok)
           \/ process_image(t)
           \/ \E success \in BOOLEAN : delivery_returned(t, success))
          => \A b \in DOMAIN capture_batches' \ {t.current_batch.id} :
                /\ b \in DOMAIN capture_batches
                /\ capture_batches'[b] = capture_batches[b]]_vars

\* Witness of C27: the download of an upload returned and its file was stored
\* after the batch it was for had been replaced by a /new_match: the new batch
\* of the session has no image.
C27_Witness ==
    /\ last.op = "image" /\ last.msg = "image_error"
    /\ last.batch_id \notin DOMAIN capture_batches
    /\ \E f \in DOMAIN capture_images : f[1] = last.batch_id
    /\ current(last.chat_id) # None
    /\ current(last.chat_id).images = <<>>

\* C28: a batch is delivered to Bot 2 at most once: no delivery returns success
\* for a batch for which a delivery has returned success before.
C28_DeliveredAtMostOnce ==
    [][last'.op = "send" => \A t \in BagToSet(tasks) :
          delivery_returned(t, TRUE)
          => \A d \in delivered : d.batch_id # t.current_batch.id]_vars

\* C29: every file in the bucket capture_images is the file of exactly one
\* image entry of exactly one batch row that exists.
C29_NoOrphanedFiles ==
    \A f \in DOMAIN capture_images :
       \E b \in DOMAIN capture_batches :
          /\ \E i \in 1..Len(capture_batches[b].images) :
                /\ capture_batches[b].images[i].filename = f
                /\ \A j \in 1..Len(capture_batches[b].images) :
                      capture_batches[b].images[j].filename = f => j = i
          /\ \A o \in DOMAIN capture_batches \ {b} :
                f \notin filenames(capture_batches[o].images)

\* The updates in the session's chat that are not the authorized user's.
NotAuthorized == {update \in Updates : update.chat = "c1" /\ update.from # authorized_user_id}

\* C30: an update whose sender is not the authorized user (or that names no
\* sender) is answered and dropped: no handler is scheduled for it, the batch
\* rows and the stored files are as they were, no message is sent to any chat
\* and nothing is delivered to Bot 2.
C30_UnauthorizedIgnored ==
    [][\A update \in NotAuthorized :
          telegram_webhook(update)
          => /\ last' = Step("unauthorized", update.chat, 0, "", 0)
             /\ UNCHANGED <<capture_batches, capture_images, tasks, delivered, uuid,
                            clock, arrival>>]_vars

\* Witness of C30: an update of someone else was dropped while the authorized
\* user's session in that chat has a batch with an image, stored odds and a
\* handler suspended at an await.
C30_Witness ==
    /\ last.op = "unauthorized"
    /\ current(last.chat_id) # None
    /\ current(last.chat_id).images # <<>>
    /\ truthy(current(last.chat_id).extracted_data)
    /\ tasks # EmptyBag

====
